---- MODULE Spec2Model ----
(***************************************************************************)
(* Model of the document extraction service                                *)
(* (src/server/services/python/processor.py and document_processor.py).    *)
(*                                                                         *)
(* Representation.                                                         *)
(*  - A Python str is a sequence of code points (46 = ".", 47 = "/",        *)
(*    32 = " ", 97 = "a", ...).  bytes are sequences of byte values.        *)
(*  - An f-string is a record [fmt |-> template, args |-> <<values>>]: the  *)
(*    literal template with "{}" for each interpolated value, and the       *)
(*    interpolated values in order.                                         *)
(*  - A dict is a record; DOMAIN gives its keys.                           *)
(*  - stdout and stderr are sequences of the entries written to them.       *)
(*  - ocr_confidence, a float with 2 decimals, is an integer number of      *)
(*    hundredths (56.67 is 5667).                                           *)
(***************************************************************************)
EXTENDS Integers, Sequences, FiniteSets, TLC

VARIABLES pc, path, exists, ext, result, stdout, stderr, attempted, outcomes, env

vars == <<pc, path, exists, ext, result, stdout, stderr, attempted, outcomes, env>>

(* ------------------------------ bounds --------------------------------- *)

\* longest path drawn by the classification specification
MaxPathLen == 4
\* longest text produced by a collaborator (page, paragraph, converter output)
MaxTextLen == 2
\* most pages of a PDF, most paragraphs of a DOCX
MaxPages == 3
\* most bytes of a plain-text file
MaxFileLen == 2
\* most OCR tokens drawn by the OCR confidence specification
MaxTokens == 4
\* most OCR tokens drawn by the whole-program specification
MainTokens == 1
\* most messages a mammoth conversion result carries
MaxMessages == 2

(* --------------------------- strings ----------------------------------- *)

\* all sequences over S of length at most n
SeqsUpTo(S, n) == UNION {[1..k -> S] : k \in 0..n}

\* str.isspace() for one code point: TAB..CR, FS..US, SPACE, NEL, NBSP and
\* the Unicode space separators
IsSpace(c) ==
    c \in (9..13) \cup (28..32) \cup {133, 160, 5760} \cup (8192..8202)
          \cup {8232, 8233, 8239, 8287, 12288}

\* number of leading whitespace code points of s
RECURSIVE LeadingSpaces(_)
LeadingSpaces(s) ==
    IF s = <<>> \/ ~IsSpace(Head(s)) THEN 0 ELSE 1 + LeadingSpaces(Tail(s))

\* number of trailing whitespace code points of s
RECURSIVE TrailingSpaces(_)
TrailingSpaces(s) ==
    IF s = <<>> \/ ~IsSpace(s[Len(s)]) THEN 0
    ELSE 1 + TrailingSpaces(SubSeq(s, 1, Len(s) - 1))

\* str.strip()
Strip(s) ==
    IF LeadingSpaces(s) = Len(s) THEN <<>>
    ELSE SubSeq(s, LeadingSpaces(s) + 1, Len(s) - TrailingSpaces(s))

\* truth value of a str: non-empty
Truthy(s) == s # <<>>

\* the code points str.lower() moves to one other code point, as runs
\* <<first, last, step, offset>>: every step-th code point from first to
\* last goes to itself plus offset (Unicode 14, the whole code space;
\* 65..90 are A..Z, 192..222 the Latin-1 capitals, 913..939 the Greek ones)
LowerRuns ==
    {<<65, 90, 1, 32>>, <<192, 214, 1, 32>>, <<216, 222, 1, 32>>,
      <<256, 302, 2, 1>>, <<306, 310, 2, 1>>, <<313, 327, 2, 1>>,
      <<330, 374, 2, 1>>, <<376, 376, 1, -121>>, <<377, 381, 2, 1>>,
      <<385, 385, 1, 210>>, <<386, 388, 2, 1>>, <<390, 390, 1, 206>>,
      <<391, 391, 1, 1>>, <<393, 394, 1, 205>>, <<395, 395, 1, 1>>,
      <<398, 398, 1, 79>>, <<399, 399, 1, 202>>, <<400, 400, 1, 203>>,
      <<401, 401, 1, 1>>, <<403, 403, 1, 205>>, <<404, 404, 1, 207>>,
      <<406, 406, 1, 211>>, <<407, 407, 1, 209>>, <<408, 408, 1, 1>>,
      <<412, 412, 1, 211>>, <<413, 413, 1, 213>>, <<415, 415, 1, 214>>,
      <<416, 420, 2, 1>>, <<422, 422, 1, 218>>, <<423, 423, 1, 1>>,
      <<425, 425, 1, 218>>, <<428, 428, 1, 1>>, <<430, 430, 1, 218>>,
      <<431, 431, 1, 1>>, <<433, 434, 1, 217>>, <<435, 437, 2, 1>>,
      <<439, 439, 1, 219>>, <<440, 440, 1, 1>>, <<444, 444, 1, 1>>,
      <<452, 452, 1, 2>>, <<453, 453, 1, 1>>, <<455, 455, 1, 2>>,
      <<456, 456, 1, 1>>, <<458, 458, 1, 2>>, <<459, 475, 2, 1>>,
      <<478, 494, 2, 1>>, <<497, 497, 1, 2>>, <<498, 500, 2, 1>>,
      <<502, 502, 1, -97>>, <<503, 503, 1, -56>>, <<504, 542, 2, 1>>,
      <<544, 544, 1, -130>>, <<546, 562, 2, 1>>, <<570, 570, 1, 10795>>,
      <<571, 571, 1, 1>>, <<573, 573, 1, -163>>, <<574, 574, 1, 10792>>,
      <<577, 577, 1, 1>>, <<579, 579, 1, -195>>, <<580, 580, 1, 69>>,
      <<581, 581, 1, 71>>, <<582, 590, 2, 1>>, <<880, 882, 2, 1>>,
      <<886, 886, 1, 1>>, <<895, 895, 1, 116>>, <<902, 902, 1, 38>>,
      <<904, 906, 1, 37>>, <<908, 908, 1, 64>>, <<910, 911, 1, 63>>,
      <<913, 929, 1, 32>>, <<932, 939, 1, 32>>, <<975, 975, 1, 8>>,
      <<984, 1006, 2, 1>>, <<1012, 1012, 1, -60>>, <<1015, 1015, 1, 1>>,
      <<1017, 1017, 1, -7>>, <<1018, 1018, 1, 1>>, <<1021, 1023, 1, -130>>,
      <<1024, 1039, 1, 80>>, <<1040, 1071, 1, 32>>, <<1120, 1152, 2, 1>>,
      <<1162, 1214, 2, 1>>, <<1216, 1216, 1, 15>>, <<1217, 1229, 2, 1>>,
      <<1232, 1326, 2, 1>>, <<1329, 1366, 1, 48>>, <<4256, 4293, 1, 7264>>,
      <<4295, 4295, 1, 7264>>, <<4301, 4301, 1, 7264>>,
      <<5024, 5103, 1, 38864>>, <<5104, 5109, 1, 8>>,
      <<7312, 7354, 1, -3008>>, <<7357, 7359, 1, -3008>>,
      <<7680, 7828, 2, 1>>, <<7838, 7838, 1, -7615>>, <<7840, 7934, 2, 1>>,
      <<7944, 7951, 1, -8>>, <<7960, 7965, 1, -8>>, <<7976, 7983, 1, -8>>,
      <<7992, 7999, 1, -8>>, <<8008, 8013, 1, -8>>, <<8025, 8031, 2, -8>>,
      <<8040, 8047, 1, -8>>, <<8072, 8079, 1, -8>>, <<8088, 8095, 1, -8>>,
      <<8104, 8111, 1, -8>>, <<8120, 8121, 1, -8>>, <<8122, 8123, 1, -74>>,
      <<8124, 8124, 1, -9>>, <<8136, 8139, 1, -86>>, <<8140, 8140, 1, -9>>,
      <<8152, 8153, 1, -8>>, <<8154, 8155, 1, -100>>, <<8168, 8169, 1, -8>>,
      <<8170, 8171, 1, -112>>, <<8172, 8172, 1, -7>>,
      <<8184, 8185, 1, -128>>, <<8186, 8187, 1, -126>>,
      <<8188, 8188, 1, -9>>, <<8486, 8486, 1, -7517>>,
      <<8490, 8490, 1, -8383>>, <<8491, 8491, 1, -8262>>,
      <<8498, 8498, 1, 28>>, <<8544, 8559, 1, 16>>, <<8579, 8579, 1, 1>>,
      <<9398, 9423, 1, 26>>, <<11264, 11311, 1, 48>>, <<11360, 11360, 1, 1>>,
      <<11362, 11362, 1, -10743>>, <<11363, 11363, 1, -3814>>,
      <<11364, 11364, 1, -10727>>, <<11367, 11371, 2, 1>>,
      <<11373, 11373, 1, -10780>>, <<11374, 11374, 1, -10749>>,
      <<11375, 11375, 1, -10783>>, <<11376, 11376, 1, -10782>>,
      <<11378, 11378, 1, 1>>, <<11381, 11381, 1, 1>>,
      <<11390, 11391, 1, -10815>>, <<11392, 11490, 2, 1>>,
      <<11499, 11501, 2, 1>>, <<11506, 11506, 1, 1>>, <<42560, 42604, 2, 1>>,
      <<42624, 42650, 2, 1>>, <<42786, 42798, 2, 1>>, <<42802, 42862, 2, 1>>,
      <<42873, 42875, 2, 1>>, <<42877, 42877, 1, -35332>>,
      <<42878, 42886, 2, 1>>, <<42891, 42891, 1, 1>>,
      <<42893, 42893, 1, -42280>>, <<42896, 42898, 2, 1>>,
      <<42902, 42920, 2, 1>>, <<42922, 42922, 1, -42308>>,
      <<42923, 42923, 1, -42319>>, <<42924, 42924, 1, -42315>>,
      <<42925, 42925, 1, -42305>>, <<42926, 42926, 1, -42308>>,
      <<42928, 42928, 1, -42258>>, <<42929, 42929, 1, -42282>>,
      <<42930, 42930, 1, -42261>>, <<42931, 42931, 1, 928>>,
      <<42932, 42946, 2, 1>>, <<42948, 42948, 1, -48>>,
      <<42949, 42949, 1, -42307>>, <<42950, 42950, 1, -35384>>,
      <<42951, 42953, 2, 1>>, <<42960, 42960, 1, 1>>, <<42966, 42968, 2, 1>>,
      <<42997, 42997, 1, 1>>, <<65313, 65338, 1, 32>>,
      <<66560, 66599, 1, 40>>, <<66736, 66771, 1, 40>>,
      <<66928, 66938, 1, 39>>, <<66940, 66954, 1, 39>>,
      <<66956, 66962, 1, 39>>, <<66964, 66965, 1, 39>>,
      <<68736, 68786, 1, 64>>, <<71840, 71871, 1, 32>>,
      <<93760, 93791, 1, 32>>, <<125184, 125217, 1, 34>> }

\* the cased code points that are not case-ignorable, as ranges <<first, last>>
CasedRanges ==
    {<<65, 90>>, <<97, 122>>, <<170, 170>>, <<181, 181>>, <<186, 186>>,
      <<192, 214>>, <<216, 246>>, <<248, 442>>, <<444, 447>>, <<452, 659>>,
      <<661, 687>>, <<880, 883>>, <<886, 887>>, <<891, 893>>, <<895, 895>>,
      <<902, 902>>, <<904, 906>>, <<908, 908>>, <<910, 929>>, <<931, 1013>>,
      <<1015, 1153>>, <<1162, 1327>>, <<1329, 1366>>, <<1376, 1416>>,
      <<4256, 4293>>, <<4295, 4295>>, <<4301, 4301>>, <<4304, 4346>>,
      <<4349, 4351>>, <<5024, 5109>>, <<5112, 5117>>, <<7296, 7304>>,
      <<7312, 7354>>, <<7357, 7359>>, <<7424, 7467>>, <<7531, 7543>>,
      <<7545, 7578>>, <<7680, 7957>>, <<7960, 7965>>, <<7968, 8005>>,
      <<8008, 8013>>, <<8016, 8023>>, <<8025, 8025>>, <<8027, 8027>>,
      <<8029, 8029>>, <<8031, 8061>>, <<8064, 8116>>, <<8118, 8124>>,
      <<8126, 8126>>, <<8130, 8132>>, <<8134, 8140>>, <<8144, 8147>>,
      <<8150, 8155>>, <<8160, 8172>>, <<8178, 8180>>, <<8182, 8188>>,
      <<8450, 8450>>, <<8455, 8455>>, <<8458, 8467>>, <<8469, 8469>>,
      <<8473, 8477>>, <<8484, 8484>>, <<8486, 8486>>, <<8488, 8488>>,
      <<8490, 8493>>, <<8495, 8500>>, <<8505, 8505>>, <<8508, 8511>>,
      <<8517, 8521>>, <<8526, 8526>>, <<8544, 8575>>, <<8579, 8580>>,
      <<9398, 9449>>, <<11264, 11387>>, <<11390, 11492>>, <<11499, 11502>>,
      <<11506, 11507>>, <<11520, 11557>>, <<11559, 11559>>, <<11565, 11565>>,
      <<42560, 42605>>, <<42624, 42651>>, <<42786, 42863>>, <<42865, 42887>>,
      <<42891, 42894>>, <<42896, 42954>>, <<42960, 42961>>, <<42963, 42963>>,
      <<42965, 42969>>, <<42997, 42998>>, <<43002, 43002>>, <<43824, 43866>>,
      <<43872, 43880>>, <<43888, 43967>>, <<64256, 64262>>, <<64275, 64279>>,
      <<65313, 65338>>, <<65345, 65370>>, <<66560, 66639>>, <<66736, 66771>>,
      <<66776, 66811>>, <<66928, 66938>>, <<66940, 66954>>, <<66956, 66962>>,
      <<66964, 66965>>, <<66967, 66977>>, <<66979, 66993>>, <<66995, 67001>>,
      <<67003, 67004>>, <<68736, 68786>>, <<68800, 68850>>, <<71840, 71903>>,
      <<93760, 93823>>, <<119808, 119892>>, <<119894, 119964>>,
      <<119966, 119967>>, <<119970, 119970>>, <<119973, 119974>>,
      <<119977, 119980>>, <<119982, 119993>>, <<119995, 119995>>,
      <<119997, 120003>>, <<120005, 120069>>, <<120071, 120074>>,
      <<120077, 120084>>, <<120086, 120092>>, <<120094, 120121>>,
      <<120123, 120126>>, <<120128, 120132>>, <<120134, 120134>>,
      <<120138, 120144>>, <<120146, 120485>>, <<120488, 120512>>,
      <<120514, 120538>>, <<120540, 120570>>, <<120572, 120596>>,
      <<120598, 120628>>, <<120630, 120654>>, <<120656, 120686>>,
      <<120688, 120712>>, <<120714, 120744>>, <<120746, 120770>>,
      <<120772, 120779>>, <<122624, 122633>>, <<122635, 122654>>,
      <<125184, 125251>>, <<127280, 127305>>, <<127312, 127337>>,
      <<127344, 127369>> }

\* the case-ignorable code points, as ranges <<first, last>>
CaseIgnorableRanges ==
    {<<39, 39>>, <<46, 46>>, <<58, 58>>, <<94, 94>>, <<96, 96>>,
      <<168, 168>>, <<173, 173>>, <<175, 175>>, <<180, 180>>, <<183, 184>>,
      <<688, 879>>, <<884, 885>>, <<890, 890>>, <<900, 901>>, <<903, 903>>,
      <<1155, 1161>>, <<1369, 1369>>, <<1375, 1375>>, <<1425, 1469>>,
      <<1471, 1471>>, <<1473, 1474>>, <<1476, 1477>>, <<1479, 1479>>,
      <<1524, 1524>>, <<1536, 1541>>, <<1552, 1562>>, <<1564, 1564>>,
      <<1600, 1600>>, <<1611, 1631>>, <<1648, 1648>>, <<1750, 1757>>,
      <<1759, 1768>>, <<1770, 1773>>, <<1807, 1807>>, <<1809, 1809>>,
      <<1840, 1866>>, <<1958, 1968>>, <<2027, 2037>>, <<2042, 2042>>,
      <<2045, 2045>>, <<2070, 2093>>, <<2137, 2139>>, <<2184, 2184>>,
      <<2192, 2193>>, <<2200, 2207>>, <<2249, 2306>>, <<2362, 2362>>,
      <<2364, 2364>>, <<2369, 2376>>, <<2381, 2381>>, <<2385, 2391>>,
      <<2402, 2403>>, <<2417, 2417>>, <<2433, 2433>>, <<2492, 2492>>,
      <<2497, 2500>>, <<2509, 2509>>, <<2530, 2531>>, <<2558, 2558>>,
      <<2561, 2562>>, <<2620, 2620>>, <<2625, 2626>>, <<2631, 2632>>,
      <<2635, 2637>>, <<2641, 2641>>, <<2672, 2673>>, <<2677, 2677>>,
      <<2689, 2690>>, <<2748, 2748>>, <<2753, 2757>>, <<2759, 2760>>,
      <<2765, 2765>>, <<2786, 2787>>, <<2810, 2815>>, <<2817, 2817>>,
      <<2876, 2876>>, <<2879, 2879>>, <<2881, 2884>>, <<2893, 2893>>,
      <<2901, 2902>>, <<2914, 2915>>, <<2946, 2946>>, <<3008, 3008>>,
      <<3021, 3021>>, <<3072, 3072>>, <<3076, 3076>>, <<3132, 3132>>,
      <<3134, 3136>>, <<3142, 3144>>, <<3146, 3149>>, <<3157, 3158>>,
      <<3170, 3171>>, <<3201, 3201>>, <<3260, 3260>>, <<3263, 3263>>,
      <<3270, 3270>>, <<3276, 3277>>, <<3298, 3299>>, <<3328, 3329>>,
      <<3387, 3388>>, <<3393, 3396>>, <<3405, 3405>>, <<3426, 3427>>,
      <<3457, 3457>>, <<3530, 3530>>, <<3538, 3540>>, <<3542, 3542>>,
      <<3633, 3633>>, <<3636, 3642>>, <<3654, 3662>>, <<3761, 3761>>,
      <<3764, 3772>>, <<3782, 3782>>, <<3784, 3789>>, <<3864, 3865>>,
      <<3893, 3893>>, <<3895, 3895>>, <<3897, 3897>>, <<3953, 3966>>,
      <<3968, 3972>>, <<3974, 3975>>, <<3981, 3991>>, <<3993, 4028>>,
      <<4038, 4038>>, <<4141, 4144>>, <<4146, 4151>>, <<4153, 4154>>,
      <<4157, 4158>>, <<4184, 4185>>, <<4190, 4192>>, <<4209, 4212>>,
      <<4226, 4226>>, <<4229, 4230>>, <<4237, 4237>>, <<4253, 4253>>,
      <<4348, 4348>>, <<4957, 4959>>, <<5906, 5908>>, <<5938, 5939>>,
      <<5970, 5971>>, <<6002, 6003>>, <<6068, 6069>>, <<6071, 6077>>,
      <<6086, 6086>>, <<6089, 6099>>, <<6103, 6103>>, <<6109, 6109>>,
      <<6155, 6159>>, <<6211, 6211>>, <<6277, 6278>>, <<6313, 6313>>,
      <<6432, 6434>>, <<6439, 6440>>, <<6450, 6450>>, <<6457, 6459>>,
      <<6679, 6680>>, <<6683, 6683>>, <<6742, 6742>>, <<6744, 6750>>,
      <<6752, 6752>>, <<6754, 6754>>, <<6757, 6764>>, <<6771, 6780>>,
      <<6783, 6783>>, <<6823, 6823>>, <<6832, 6862>>, <<6912, 6915>>,
      <<6964, 6964>>, <<6966, 6970>>, <<6972, 6972>>, <<6978, 6978>>,
      <<7019, 7027>>, <<7040, 7041>>, <<7074, 7077>>, <<7080, 7081>>,
      <<7083, 7085>>, <<7142, 7142>>, <<7144, 7145>>, <<7149, 7149>>,
      <<7151, 7153>>, <<7212, 7219>>, <<7222, 7223>>, <<7288, 7293>>,
      <<7376, 7378>>, <<7380, 7392>>, <<7394, 7400>>, <<7405, 7405>>,
      <<7412, 7412>>, <<7416, 7417>>, <<7468, 7530>>, <<7544, 7544>>,
      <<7579, 7679>>, <<8125, 8125>>, <<8127, 8129>>, <<8141, 8143>>,
      <<8157, 8159>>, <<8173, 8175>>, <<8189, 8190>>, <<8203, 8207>>,
      <<8216, 8217>>, <<8228, 8228>>, <<8231, 8231>>, <<8234, 8238>>,
      <<8288, 8292>>, <<8294, 8303>>, <<8305, 8305>>, <<8319, 8319>>,
      <<8336, 8348>>, <<8400, 8432>>, <<11388, 11389>>, <<11503, 11505>>,
      <<11631, 11631>>, <<11647, 11647>>, <<11744, 11775>>, <<11823, 11823>>,
      <<12293, 12293>>, <<12330, 12333>>, <<12337, 12341>>, <<12347, 12347>>,
      <<12441, 12446>>, <<12540, 12542>>, <<40981, 40981>>, <<42232, 42237>>,
      <<42508, 42508>>, <<42607, 42610>>, <<42612, 42621>>, <<42623, 42623>>,
      <<42652, 42655>>, <<42736, 42737>>, <<42752, 42785>>, <<42864, 42864>>,
      <<42888, 42890>>, <<42994, 42996>>, <<43000, 43001>>, <<43010, 43010>>,
      <<43014, 43014>>, <<43019, 43019>>, <<43045, 43046>>, <<43052, 43052>>,
      <<43204, 43205>>, <<43232, 43249>>, <<43263, 43263>>, <<43302, 43309>>,
      <<43335, 43345>>, <<43392, 43394>>, <<43443, 43443>>, <<43446, 43449>>,
      <<43452, 43453>>, <<43471, 43471>>, <<43493, 43494>>, <<43561, 43566>>,
      <<43569, 43570>>, <<43573, 43574>>, <<43587, 43587>>, <<43596, 43596>>,
      <<43632, 43632>>, <<43644, 43644>>, <<43696, 43696>>, <<43698, 43700>>,
      <<43703, 43704>>, <<43710, 43711>>, <<43713, 43713>>, <<43741, 43741>>,
      <<43756, 43757>>, <<43763, 43764>>, <<43766, 43766>>, <<43867, 43871>>,
      <<43881, 43883>>, <<44005, 44005>>, <<44008, 44008>>, <<44013, 44013>>,
      <<64286, 64286>>, <<64434, 64450>>, <<65024, 65039>>, <<65043, 65043>>,
      <<65056, 65071>>, <<65106, 65106>>, <<65109, 65109>>, <<65279, 65279>>,
      <<65287, 65287>>, <<65294, 65294>>, <<65306, 65306>>, <<65342, 65342>>,
      <<65344, 65344>>, <<65392, 65392>>, <<65438, 65439>>, <<65507, 65507>>,
      <<65529, 65531>>, <<66045, 66045>>, <<66272, 66272>>, <<66422, 66426>>,
      <<67456, 67461>>, <<67463, 67504>>, <<67506, 67514>>, <<68097, 68099>>,
      <<68101, 68102>>, <<68108, 68111>>, <<68152, 68154>>, <<68159, 68159>>,
      <<68325, 68326>>, <<68900, 68903>>, <<69291, 69292>>, <<69446, 69456>>,
      <<69506, 69509>>, <<69633, 69633>>, <<69688, 69702>>, <<69744, 69744>>,
      <<69747, 69748>>, <<69759, 69761>>, <<69811, 69814>>, <<69817, 69818>>,
      <<69821, 69821>>, <<69826, 69826>>, <<69837, 69837>>, <<69888, 69890>>,
      <<69927, 69931>>, <<69933, 69940>>, <<70003, 70003>>, <<70016, 70017>>,
      <<70070, 70078>>, <<70089, 70092>>, <<70095, 70095>>, <<70191, 70193>>,
      <<70196, 70196>>, <<70198, 70199>>, <<70206, 70206>>, <<70367, 70367>>,
      <<70371, 70378>>, <<70400, 70401>>, <<70459, 70460>>, <<70464, 70464>>,
      <<70502, 70508>>, <<70512, 70516>>, <<70712, 70719>>, <<70722, 70724>>,
      <<70726, 70726>>, <<70750, 70750>>, <<70835, 70840>>, <<70842, 70842>>,
      <<70847, 70848>>, <<70850, 70851>>, <<71090, 71093>>, <<71100, 71101>>,
      <<71103, 71104>>, <<71132, 71133>>, <<71219, 71226>>, <<71229, 71229>>,
      <<71231, 71232>>, <<71339, 71339>>, <<71341, 71341>>, <<71344, 71349>>,
      <<71351, 71351>>, <<71453, 71455>>, <<71458, 71461>>, <<71463, 71467>>,
      <<71727, 71735>>, <<71737, 71738>>, <<71995, 71996>>, <<71998, 71998>>,
      <<72003, 72003>>, <<72148, 72151>>, <<72154, 72155>>, <<72160, 72160>>,
      <<72193, 72202>>, <<72243, 72248>>, <<72251, 72254>>, <<72263, 72263>>,
      <<72273, 72278>>, <<72281, 72283>>, <<72330, 72342>>, <<72344, 72345>>,
      <<72752, 72758>>, <<72760, 72765>>, <<72767, 72767>>, <<72850, 72871>>,
      <<72874, 72880>>, <<72882, 72883>>, <<72885, 72886>>, <<73009, 73014>>,
      <<73018, 73018>>, <<73020, 73021>>, <<73023, 73029>>, <<73031, 73031>>,
      <<73104, 73105>>, <<73109, 73109>>, <<73111, 73111>>, <<73459, 73460>>,
      <<78896, 78904>>, <<92912, 92916>>, <<92976, 92982>>, <<92992, 92995>>,
      <<94031, 94031>>, <<94095, 94111>>, <<94176, 94177>>, <<94179, 94180>>,
      <<110576, 110579>>, <<110581, 110587>>, <<110589, 110590>>,
      <<113821, 113822>>, <<113824, 113827>>, <<118528, 118573>>,
      <<118576, 118598>>, <<119143, 119145>>, <<119155, 119170>>,
      <<119173, 119179>>, <<119210, 119213>>, <<119362, 119364>>,
      <<121344, 121398>>, <<121403, 121452>>, <<121461, 121461>>,
      <<121476, 121476>>, <<121499, 121503>>, <<121505, 121519>>,
      <<122880, 122886>>, <<122888, 122904>>, <<122907, 122913>>,
      <<122915, 122916>>, <<122918, 122922>>, <<123184, 123197>>,
      <<123566, 123566>>, <<123628, 123631>>, <<125136, 125142>>,
      <<125252, 125259>>, <<127995, 127999>>, <<917505, 917505>>,
      <<917536, 917631>>, <<917760, 917999>> }

\* c lies in one of the ranges R
InRanges(c, R) == \E r \in R : r[1] <= c /\ c <= r[2]

IsCased(c) == InRanges(c, CasedRanges)
IsCaseIgnorable(c) == InRanges(c, CaseIgnorableRanges)

\* str.lower() of the one code point c: a str, since U+0130 gives two code
\* points; a capital sigma on its own gives the small sigma
LowerChar(c) ==
    IF c = 304 THEN <<105, 775>>
    ELSE IF c = 931 THEN <<963>>
    ELSE IF \E r \in LowerRuns : r[1] <= c /\ c <= r[2] /\ (c - r[1]) % r[3] = 0
    THEN LET r == CHOOSE r \in LowerRuns :
                      r[1] <= c /\ c <= r[2] /\ (c - r[1]) % r[3] = 0
         IN  <<c + r[4]>>
    ELSE <<c>>

\* the capital sigma at s[i] ends a word: the nearest code point before it
\* that is not case-ignorable is cased, and the nearest one after it is not
FinalSigma(s, i) ==
    LET before == {j \in 1..(i - 1) : ~IsCaseIgnorable(s[j])}
        after == {j \in (i + 1)..Len(s) : ~IsCaseIgnorable(s[j])}
        last == CHOOSE j \in before : \A k \in before : k <= j
        next == CHOOSE j \in after : \A k \in after : j <= k
    IN  /\ before # {}
        /\ IsCased(s[last])
        /\ (after = {} \/ ~IsCased(s[next]))

\* the lower-cased code points of s[i..]
RECURSIVE LowerFrom(_, _)
LowerFrom(s, i) ==
    IF i > Len(s) THEN <<>>
    ELSE (IF s[i] = 931 /\ FinalSigma(s, i) THEN <<962>> ELSE LowerChar(s[i]))
         \o LowerFrom(s, i + 1)

\* the extension left as it is
Lower_Identity(s) == s

\* str.lower()
Lower(s) == LowerFrom(s, 1)

\* str.rfind(c): last 1-based index of c in s, 0 when absent
RFind(s, c) ==
    IF \E i \in DOMAIN s : s[i] = c
    THEN CHOOSE i \in DOMAIN s : s[i] = c /\ \A j \in DOMAIN s : s[j] = c => j <= i
    ELSE 0

\* os.path.splitext(p)[1]: from the last dot of the last path component,
\* unless that component has only dots before it
SplitExt(p) ==
    LET sepIndex == RFind(p, 47)
        dotIndex == RFind(p, 46)
    IN  IF dotIndex > sepIndex
           /\ \E k \in (sepIndex + 1)..(dotIndex - 1) : p[k] # 46
        THEN SubSeq(p, dotIndex, Len(p))
        ELSE <<>>

\* an f-string: template and interpolated values
Fmt(f, a) == [fmt |-> f, args |-> a]

\* an Optional[str]
None == [none |-> TRUE]
Some(t) == [str |-> t]

\* an error dict
Err(f, a) == [error |-> Fmt(f, a)]

\* the extensions the dispatch of process_document compares with
DotDoc == <<46, 100, 111, 99>>
DotDocx == <<46, 100, 111, 99, 120>>
DotPdf == <<46, 112, 100, 102>>
DotTxt == <<46, 116, 120, 116>>
DotMd == <<46, 109, 100>>
DotJpg == <<46, 106, 112, 103>>
DotJpeg == <<46, 106, 112, 101, 103>>
DotPng == <<46, 112, 110, 103>>
DotWebp == <<46, 119, 101, 98, 112>>

\* the handler process_document dispatches a lower-cased extension to
HandlerOf(e) ==
    IF e = DotDoc THEN "doc"
    ELSE IF e = DotDocx THEN "docx"
    ELSE IF e = DotPdf THEN "pdf"
    ELSE IF e \in {DotTxt, DotMd} THEN "text"
    ELSE IF e \in {DotJpg, DotJpeg, DotPng, DotWebp} THEN "image"
    ELSE "unsupported"

(* ----------------------------- inputs ---------------------------------- *)

\* texts a collaborator can produce: over " " and "a"
Texts == SeqsUpTo({32, 97}, MaxTextLen)

\* str(e) of the exceptions collaborators raise
ExcMsgs == {<<69>>}

\* paths of the whole-program specification: a.doc a.DOC a.docx a.pdf a.txt
\* a.md a.jpg a.jpeg a.PNG a.webp a.xyz a.XyZ, a.\'E (E acute, U+00C9) and
\* "a" (no extension)
SamplePaths ==
    { <<97>> \o DotDoc, <<97, 46, 68, 79, 67>>, <<97>> \o DotDocx,
      <<97>> \o DotPdf, <<97>> \o DotTxt, <<97>> \o DotMd, <<97>> \o DotJpg,
      <<97>> \o DotJpeg, <<97, 46, 80, 78, 71>>, <<97>> \o DotWebp,
      <<97, 46, 120, 121, 122>>, <<97, 46, 88, 121, 90>>, <<97, 46, 201>>,
      <<97>> }

\* paths of the classification specification: over . / m d M D
PathAlphabet == {46, 47, 109, 100, 77, 68}
GenPaths == SeqsUpTo(PathAlphabet, MaxPathLen)

NoResult == [pending |-> TRUE]
NoEnv == [kind |-> "none"]

(* ---------------------------- debug_log -------------------------------- *)

\* debug_log(message, data): one entry on stderr
LogEntry(msg, data) == [message |-> msg, data |-> data]
NoData == [none |-> TRUE]
Log(f, a) == LogEntry(Fmt(f, a), NoData)

(* ------------------------- process_document ---------------------------- *)

\* lines 287-289: json.dumps(result), print, return
Finish(r, logs) ==
    /\ result' = r
    /\ stdout' = Append(stdout, [json |-> r])
    /\ stderr' = stderr \o logs
    /\ pc' = "done"

\* lines 262-284: existence check, extension, dispatch
Start ==
    /\ pc = "start"
    /\ IF ~exists
       THEN /\ result' = Err("File not found", <<>>)
            /\ pc' = "done"
            /\ UNCHANGED <<ext, stdout, stderr>>
       ELSE LET e == Lower(SplitExt(path))
                entry == Log("Processing file: {} with extension: {}", <<path, e>>)
            IN  /\ ext' = e
                /\ IF HandlerOf(e) = "unsupported"
                   THEN Finish(Err("Unsupported file format: {}", <<e>>), <<entry>>)
                   ELSE /\ pc' = HandlerOf(e)
                        /\ stderr' = Append(stderr, entry)
                        /\ UNCHANGED <<result, stdout>>
    /\ UNCHANGED <<path, exists, attempted, outcomes, env>>

(* ----------------------------- process_doc --------------------------- *)

\* what a strategy's collaborator (antiword, mammoth) can do: raise, or
\* produce a text
RaiseOutcomes(kinds) == [kind : {"raise"}, exc : kinds, msg : ExcMsgs]
ValueOutcomes == [kind : {"value"}, text : Texts]
AntiwordOutcomes == RaiseOutcomes({"CalledProcessError", "Exception"}) \cup ValueOutcomes
MammothOutcomes == RaiseOutcomes({"Exception"}) \cup ValueOutcomes

\* the converters listed in the other order
MammothMethods_Swapped == <<"raw_text", "markdown">>

\* a third converter after the two of the code
MammothMethods_WithHtml == <<"markdown", "raw_text", "html">>

\* lines 151-154: the converters of the mammoth loop, in order
MammothMethods == <<"markdown", "raw_text">>

\* lines 109-127: the text returned (isNone when None) and the entries logged
process_doc_antiword(o) ==
    LET attempt == Log("Attempting antiword conversion...", <<>>)
    IN  IF o.kind = "value"
        THEN IF Truthy(Strip(o.text))
             THEN [isNone |-> FALSE, text |-> o.text,
                   logs |-> <<attempt,
                              Log("Antiword extraction successful. Length: {}",
                                  <<Len(o.text)>>)>>]
             ELSE [isNone |-> TRUE, text |-> <<>>, logs |-> <<attempt>>]
        ELSE IF o.exc = "CalledProcessError"
        THEN [isNone |-> TRUE, text |-> <<>>,
              logs |-> <<attempt, Log("Antiword conversion failed: {}", <<o.msg>>),
                         Log("stderr: {}", <<o.msg>>)>>]
        ELSE [isNone |-> TRUE, text |-> <<>>,
              logs |-> <<attempt, Log("Antiword error: {}", <<o.msg>>)>>]

\* lines 141-147 and 165-171: the success dict of process_doc
DocSuccess(text, method) ==
    [type |-> "doc", content |-> [text |-> text, method |-> method]]

\* the error of a missing file returned in place of the exhaustion error
ExhaustedError_FileNotFound == Err("File not found", <<>>)

\* line 177
ExhaustedError == Err("Failed to extract text using any available method", <<>>)

\* lines 133-147: entry of process_doc, which returns the error when the
\* file is not there (lines 135-136), and the antiword strategy
DocAntiword ==
    /\ pc = "doc"
    /\ IF ~exists
       THEN /\ Finish(Err("File not found", <<>>),
                      <<Log("Processing DOC file: {}", <<path>>)>>)
            /\ UNCHANGED <<attempted, outcomes>>
       ELSE \E o \in AntiwordOutcomes :
              LET r == process_doc_antiword(o)
                  logs == <<Log("Processing DOC file: {}", <<path>>)>> \o r.logs
              IN  /\ attempted' = Append(attempted, "antiword")
                  /\ outcomes' = Append(outcomes, o)
                  /\ IF ~r.isNone /\ Truthy(r.text)
                     THEN Finish(DocSuccess(r.text, "antiword"), logs)
                     ELSE /\ pc' = "doc_open"
                          /\ stderr' = stderr \o logs
                          /\ UNCHANGED <<result, stdout>>
    /\ UNCHANGED <<path, exists, ext, env>>

\* lines 113-118 when the antiword process never exits: subprocess.run is
\* called without a timeout and waits for the process, so process_doc stays
\* in the call
DocAntiwordHang ==
    /\ pc = "doc"
    /\ exists
    /\ pc' = "doc_wait"
    /\ attempted' = Append(attempted, "antiword")
    /\ outcomes' = Append(outcomes, [kind |-> "hang"])
    /\ stderr' = stderr \o <<Log("Processing DOC file: {}", <<path>>),
                              Log("Attempting antiword conversion...", <<>>)>>
    /\ UNCHANGED <<path, exists, ext, result, stdout, env>>

\* line 150, and lines 179-182 when it raises
DocOpen ==
    /\ pc = "doc_open"
    /\ \/ /\ pc' = "doc_mammoth"
          /\ env' = [kind |-> "doc", openOk |-> TRUE]
          /\ UNCHANGED <<result, stdout, stderr>>
       \/ \E m \in ExcMsgs :
            /\ env' = [kind |-> "doc", openOk |-> FALSE]
            /\ Finish(Err("DOC processing failed: {}", <<m>>),
                      <<Log("Fatal error in DOC processing: {}", <<m>>),
                        Log("{}", <<"traceback">>)>>)
    /\ UNCHANGED <<path, exists, ext, attempted, outcomes>>

\* lines 156-177: one iteration of the mammoth loop, and the return after
\* the last one
DocMammoth ==
    /\ pc = "doc_mammoth"
    /\ \E o \in MammothOutcomes :
         LET i == Len(attempted)
             name == MammothMethods[i]
             attempt == Log("Attempting {} conversion...", <<name>>)
             text == Strip(o.text)
         IN  /\ attempted' = Append(attempted, name)
             /\ outcomes' = Append(outcomes, o)
             /\ IF o.kind = "value" /\ Truthy(text)
                THEN Finish(DocSuccess(text, name),
                            <<attempt,
                              Log("Successfully extracted text using {}. Length: {}",
                                  <<name, Len(text)>>)>>)
                ELSE LET failure ==
                           IF o.kind = "value"
                           THEN Log("{} conversion produced empty result", <<name>>)
                           ELSE Log("{} conversion failed: {}", <<name, o.msg>>)
                     IN  IF i = Len(MammothMethods)
                         THEN Finish(ExhaustedError, <<attempt, failure>>)
                         ELSE /\ pc' = "doc_mammoth"
                              /\ stderr' = stderr \o <<attempt, failure>>
                              /\ UNCHANGED <<result, stdout>>
    /\ UNCHANGED <<path, exists, ext, env>>

(* ------------------------ process_docx, process_pdf -------------------- *)

\* str.join: the texts of ts separated by sep
RECURSIVE Join(_, _)
Join(ts, sep) ==
    IF ts = <<>> THEN <<>>
    ELSE IF Len(ts) = 1 THEN ts[1]
    ELSE ts[1] \o sep \o Join(Tail(ts), sep)

\* opening a file or a document: succeeds, or raises
OpenOutcomes == [kind : {"ok"}] \cup RaiseOutcomes({"Exception"})

\* a DOCX: how Document(path) ends, and the texts of its paragraphs
DocxEnvs == [kind : {"docx"}, open : OpenOutcomes,
             paragraphs : SeqsUpTo(Texts, MaxPages)]

\* lines 185-201: the dict returned and the entries logged
process_docx(e) ==
    LET entry == Log("Processing DOCX file: {}", <<path>>)
        text == Join(e.paragraphs, <<10>>)
    IN  IF e.open.kind = "raise"
        THEN [ret |-> Err("DOCX processing failed: {}", <<e.open.msg>>),
              logs |-> <<entry, Log("DOCX processing failed: {}", <<e.open.msg>>)>>]
        ELSE IF ~Truthy(Strip(text))
        THEN [ret |-> Err("No text content found in DOCX", <<>>), logs |-> <<entry>>]
        ELSE [ret |-> [type |-> "docx", content |-> [text |-> text]],
              logs |-> <<entry>>]

ProcessDocx ==
    /\ pc = "docx"
    /\ \E e \in DocxEnvs :
         /\ env' = e
         /\ Finish(process_docx(e).ret, process_docx(e).logs)
    /\ UNCHANGED <<path, exists, ext, attempted, outcomes>>

\* a PDF: how open and PdfReader end, and what extract_text does on each page
PageOutcomes == ValueOutcomes \cup RaiseOutcomes({"Exception"})
PdfEnvs == [kind : {"pdf"}, open : OpenOutcomes,
            pages : SeqsUpTo(PageOutcomes, MaxPages)]

\* the page loop keeping every page, blank or not
KeptPages_All(ps) == [i \in DOMAIN ps |-> ps[i].text]

\* lines 210-214: the texts kept by the page loop, in page order
RECURSIVE KeptPages(_)
KeptPages(ps) ==
    IF ps = <<>> THEN <<>>
    ELSE IF Truthy(Strip(Head(ps).text))
    THEN <<Head(ps).text>> \o KeptPages(Tail(ps))
    ELSE KeptPages(Tail(ps))

\* lines 204-225: the dict returned and the entries logged
process_pdf(e) ==
    LET entry == Log("Processing PDF file: {}", <<path>>)
        failed(m) == [ret |-> Err("PDF processing failed: {}", <<m>>),
                      logs |-> <<entry, Log("PDF processing failed: {}", <<m>>)>>]
        raising == {i \in DOMAIN e.pages : e.pages[i].kind = "raise"}
        first == CHOOSE i \in raising : \A j \in raising : i <= j
        pages == KeptPages(e.pages)
    IN  IF e.open.kind = "raise" THEN failed(e.open.msg)
        ELSE IF raising # {} THEN failed(e.pages[first].msg)
        ELSE IF pages = <<>>
        THEN [ret |-> Err("No text content found in PDF", <<>>), logs |-> <<entry>>]
        ELSE [ret |-> [type |-> "pdf", content |-> [pages |-> pages]],
              logs |-> <<entry>>]

ProcessPdf ==
    /\ pc = "pdf"
    /\ \E e \in PdfEnvs :
         /\ env' = e
         /\ Finish(process_pdf(e).ret, process_pdf(e).logs)
    /\ UNCHANGED <<path, exists, ext, attempted, outcomes>>

(* ----------------------------- process_text -------------------------- *)

\* cp1252 tried before latin-1
Encodings_Swapped == <<"utf-8", "cp1252", "latin-1">>

\* the encodings process_text opens the file with, in order (lines 232, 243)
Encodings == <<"utf-8", "latin-1", "cp1252">>

\* bytes of a text file: CR, " ", "a", 0x81, 0x85, 0xA0, 0xC2
FileBytes == {13, 32, 97, 129, 133, 160, 194}

\* a text file: its bytes, and whether open succeeds for each encoding
TextEnvs == [kind : {"text"}, bytes : SeqsUpTo(FileBytes, MaxFileLen),
             openOk : [{"utf-8", "latin-1", "cp1252"} -> BOOLEAN]]

\* the number of bytes of the well-formed utf-8 sequence bs starts with, 0
\* when it starts with none: 00-7F; C2-DF 80-BF; E0 A0-BF 80-BF;
\* E1-EC/EE-EF 80-BF 80-BF; ED 80-9F 80-BF; F0 90-BF 80-BF 80-BF;
\* F1-F3 80-BF 80-BF 80-BF; F4 80-8F 80-BF 80-BF
Utf8Len(bs) ==
    LET b == Head(bs)
        cont(i) == Len(bs) >= i /\ bs[i] \in 128..191
        second(lo, hi) == Len(bs) >= 2 /\ bs[2] \in lo..hi
    IN  IF b < 128 THEN 1
        ELSE IF b \in 194..223 /\ cont(2) THEN 2
        ELSE IF b = 224 /\ second(160, 191) /\ cont(3) THEN 3
        ELSE IF b \in (225..236) \cup {238, 239} /\ cont(2) /\ cont(3) THEN 3
        ELSE IF b = 237 /\ second(128, 159) /\ cont(3) THEN 3
        ELSE IF b = 240 /\ second(144, 191) /\ cont(3) /\ cont(4) THEN 4
        ELSE IF b \in 241..243 /\ cont(2) /\ cont(3) /\ cont(4) THEN 4
        ELSE IF b = 244 /\ second(128, 143) /\ cont(3) /\ cont(4) THEN 4
        ELSE 0

\* the code point of a well-formed utf-8 sequence of n bytes
Utf8CodePoint(bs, n) ==
    IF n = 1 THEN bs[1]
    ELSE IF n = 2 THEN (bs[1] - 192) * 64 + (bs[2] - 128)
    ELSE IF n = 3 THEN (bs[1] - 224) * 4096 + (bs[2] - 128) * 64 + (bs[3] - 128)
    ELSE (bs[1] - 240) * 262144 + (bs[2] - 128) * 4096
         + (bs[3] - 128) * 64 + (bs[4] - 128)

\* the utf-8 codec (errors='strict'): a byte that starts no well-formed
\* sequence is a decoding error
RECURSIVE DecodeUtf8(_)
DecodeUtf8(bs) ==
    IF bs = <<>> THEN [ok |-> TRUE, text |-> <<>>]
    ELSE LET n == Utf8Len(bs)
         IN  IF n = 0 THEN [ok |-> FALSE, text |-> <<>>]
             ELSE LET rest == DecodeUtf8(SubSeq(bs, n + 1, Len(bs)))
                  IN  [ok |-> rest.ok,
                       text |-> IF rest.ok THEN <<Utf8CodePoint(bs, n)>> \o rest.text
                                ELSE <<>>]

\* the cp1252 codec: the code points of bytes 80-9F
Cp1252High ==
    128 :> 8364 @@ 130 :> 8218 @@ 131 :> 402 @@ 132 :> 8222 @@ 133 :> 8230 @@
    134 :> 8224 @@ 135 :> 8225 @@ 136 :> 710 @@ 137 :> 8240 @@ 138 :> 352 @@
    139 :> 8249 @@ 140 :> 338 @@ 142 :> 381 @@ 145 :> 8216 @@ 146 :> 8217 @@
    147 :> 8220 @@ 148 :> 8221 @@ 149 :> 8226 @@ 150 :> 8211 @@ 151 :> 8212 @@
    152 :> 732 @@ 153 :> 8482 @@ 154 :> 353 @@ 155 :> 8250 @@ 156 :> 339 @@
    158 :> 382 @@ 159 :> 376

\* the cp1252 codec: bytes 81, 8D, 8F, 90, 9D are undefined
DecodeCp1252(bs) ==
    IF \E i \in DOMAIN bs : bs[i] \in 128..159 /\ bs[i] \notin DOMAIN Cp1252High
    THEN [ok |-> FALSE, text |-> <<>>]
    ELSE [ok |-> TRUE,
          text |-> [i \in DOMAIN bs |->
                      IF bs[i] \in 128..159 THEN Cp1252High[bs[i]] ELSE bs[i]]]

\* the newline translation of a file opened in text mode (newline=None):
\* "\r\n" and a lone "\r" are read as "\n"
RECURSIVE Newlines(_)
Newlines(t) ==
    IF t = <<>> THEN <<>>
    ELSE IF Head(t) = 13
    THEN <<10>> \o Newlines(IF Len(t) >= 2 /\ t[2] = 10
                            THEN SubSeq(t, 3, Len(t)) ELSE Tail(t))
    ELSE <<Head(t)>> \o Newlines(Tail(t))

\* the codec of an encoding: latin-1 maps every byte to the code point of
\* the same value
Codec(enc, bs) ==
    IF enc = "utf-8" THEN DecodeUtf8(bs)
    ELSE IF enc = "cp1252" THEN DecodeCp1252(bs)
    ELSE [ok |-> TRUE, text |-> bs]

\* file.read() of a file opened with open(path, 'r', encoding=enc): the
\* bytes decoded, then the newlines translated
Decode(enc, bs) ==
    LET d == Codec(enc, bs)
    IN  [ok |-> d.ok, text |-> IF d.ok THEN Newlines(d.text) ELSE <<>>]

\* a success dict that also carries an error key
TextSuccess_WithError(text) ==
    [type |-> "text", content |-> [text |-> text], error |-> None]

\* lines 237-240 and 248-251
TextSuccess(text) == [type |-> "text", content |-> [text |-> text]]

\* lines 243-254: the retry loop over Encodings from position i on
RECURSIVE TextRetry(_, _)
TextRetry(e, i) ==
    IF i > Len(Encodings)
    THEN Err("Failed to decode text file with supported encodings", <<>>)
    ELSE LET d == Decode(Encodings[i], e.bytes)
         IN  IF e.openOk[Encodings[i]] /\ d.ok /\ Truthy(Strip(d.text))
             THEN TextSuccess(d.text)
             ELSE TextRetry(e, i + 1)

\* lines 228-257: the dict returned and the entries logged
process_text(e) ==
    LET entry == Log("Processing text file: {}", <<path>>)
        d == Decode(Encodings[1], e.bytes)
    IN  IF ~e.openOk[Encodings[1]]
        THEN [ret |-> Err("Text file processing failed: {}", <<<<69>>>>),
              logs |-> <<entry, Log("Text file processing failed: {}", <<<<69>>>>)>>]
        ELSE IF ~d.ok THEN [ret |-> TextRetry(e, 2), logs |-> <<entry>>]
        ELSE IF ~Truthy(Strip(d.text))
        THEN [ret |-> Err("Empty text file", <<>>), logs |-> <<entry>>]
        ELSE [ret |-> TextSuccess(d.text), logs |-> <<entry>>]

ProcessText ==
    /\ pc = "text"
    /\ \E e \in TextEnvs :
         /\ env' = e
         /\ Finish(process_text(e).ret, process_text(e).logs)
    /\ UNCHANGED <<path, exists, ext, attempted, outcomes>>

(* ----------------------------- process_image ------------------------- *)

\* OCR tokens: the text and the confidence of each (-1: not scored)
TokenTexts == {<<>>, <<32>>, <<120>>}
TokenConfs == {-1, 0, 80, 90}
Tokens == [text : TokenTexts, conf : TokenConfs]
TokenLists(n) == SeqsUpTo(Tokens, n)

\* an image: how Image.open ends, mode and format of the opened image, what
\* image_to_data and image_to_string do
ImageEnvs(n) ==
    [kind : {"image"}, open : OpenOutcomes, mode : {"L", "RGB", "RGBA"},
     format : {"JPEG", "PNG", "WEBP"},
     data : [kind : {"value"}, tokens : TokenLists(n)] \cup RaiseOutcomes({"Exception"}),
     string : ValueOutcomes \cup RaiseOutcomes({"Exception"})]

\* the filter without the test on the confidence
RECURSIVE Confidences_WithUnscored(_)
Confidences_WithUnscored(ts) ==
    IF ts = <<>> THEN <<>>
    ELSE IF Truthy(Strip(Head(ts).text))
    THEN <<Head(ts).conf>> \o Confidences_WithUnscored(Tail(ts))
    ELSE Confidences_WithUnscored(Tail(ts))

\* lines 51-52: the confidences of the tokens with non-blank text and a
\* confidence other than -1, in token order
RECURSIVE Confidences(_)
Confidences(ts) ==
    IF ts = <<>> THEN <<>>
    ELSE IF Truthy(Strip(Head(ts).text)) /\ Head(ts).conf # -1
    THEN <<Head(ts).conf>> \o Confidences(Tail(ts))
    ELSE Confidences(Tail(ts))

\* sum(confidences)
RECURSIVE Sum(_)
Sum(cs) == IF cs = <<>> THEN 0 ELSE Head(cs) + Sum(Tail(cs))

\* the binary exponent of t / 200 for t >= 1: the e with
\* 2^e <= t / 200 < 2^(e + 1)
RECURSIVE BinaryExponent(_)
BinaryExponent(t) ==
    IF t >= 400 THEN BinaryExponent(t \div 2) + 1
    ELSE IF t < 200 THEN BinaryExponent(2 * t) - 1
    ELSE 0

\* 2^k modulo m
RECURSIVE PowerOfTwoMod(_, _)
PowerOfTwoMod(k, m) == IF k = 0 THEN 1 % m ELSE (2 * PowerOfTwoMod(k - 1, m)) % m

\* the float nearest t / 200 (t odd, not a multiple of 25, so that t / 200
\* is no float) lies above it: the 53-bit significand of t / 200 is
\* t * 2^k / 200 rounded to an integer, k = 52 - BinaryExponent(t), and it
\* is rounded up when the remainder of t * 2^k by 200 is over 100
FloatAbove(t) ==
    ((t % 200) * PowerOfTwoMod(52 - BinaryExponent(t), 200)) % 200 > 100

\* round(num / den, 2) in hundredths, for num >= 0 and den > 0.  num / den
\* is the float nearest the quotient, and round() rounds the exact value of
\* that float to the nearest hundredth, a tie going to the even one.  A
\* quotient that is not halfway between two hundredths rounds as its float
\* does.  One that is halfway, (2q + 1) / 200, is a float only when it is a
\* multiple of 1/8 (25 divides 2q + 1), and is then a tie; otherwise the
\* float lies on one side of it, and that side decides (round(1/40, 2) is
\* 0.03, round(3/40, 2) is 0.07)
Round2(num, den) ==
    LET q == (100 * num) \div den
        r == (100 * num) % den
    IN  IF 2 * r < den THEN q
        ELSE IF 2 * r > den THEN q + 1
        ELSE IF (2 * q + 1) % 25 = 0 THEN (IF q % 2 = 0 THEN q ELSE q + 1)
        ELSE IF FloatAbove(2 * q + 1) THEN q + 1 ELSE q

\* greatest common divisor of a >= 0 and b > 0
RECURSIVE GCD(_, _)
GCD(a, b) == IF a % b = 0 THEN b ELSE GCD(b, a % b)

\* line 53: avg_confidence, the float sum(confidences) / len(confidences),
\* as the quotient in lowest terms; 0 when there are no confidences
Average(cs) ==
    IF cs = <<>> THEN [num |-> 0, den |-> 1]
    ELSE LET g == GCD(Sum(cs), Len(cs))
         IN  [num |-> Sum(cs) \div g, den |-> Len(cs) \div g]

\* lines 53 and 88: round(avg_confidence, 2) in hundredths
RoundedAverage(cs) == IF cs = <<>> THEN 0 ELSE Round2(Sum(cs), Len(cs))

\* lines 41-43: the image after the mode check; Image.convert returns a new
\* image, whose format is None
Converted(e) ==
    IF e.mode \notin {"L", "RGB"}
    THEN [mode |-> "RGB", format |-> None]
    ELSE [mode |-> e.mode, format |-> Some(e.format)]

\* line 75: img.format or 'unknown'
FormatName(img) == IF img.format = None THEN "unknown" ELSE img.format.str

\* the formats Pillow registers a writer for
SaveFormats ==
    {"BLP", "BMP", "DDS", "DIB", "EPS", "GIF", "ICNS", "ICO", "IM", "JPEG",
     "JPEG2000", "MPO", "MSP", "PALM", "PCX", "PDF", "PNG", "PPM", "SGI",
     "SPIDER", "TGA", "TIFF", "WEBP", "XBM"}

\* line 79: img.save raises KeyError for a format no writer is registered
\* for; str(KeyError('UNKNOWN')) is 'UNKNOWN' in quotes
SaveRaises(formatName) == formatName \notin SaveFormats
UnknownKey == <<39, 85, 78, 75, 78, 79, 87, 78, 39>>

\* traceback.format_exc(): the text of the traceback, not modelled further
Traceback == "..."

\* the data logged with a failure: lines 66-69 and 101-104
ErrorDetails(excType) == [error_type |-> excType, traceback |-> Traceback]

\* lines 46-71: text and confidence (in hundredths) after the OCR block
Ocr(e) ==
    IF e.data.kind = "raise" \/ e.string.kind = "raise"
    THEN [ok |-> FALSE, text |-> <<>>, confidence |-> 0,
          msg |-> IF e.data.kind = "raise" THEN e.data.msg ELSE e.string.msg,
          exc |-> IF e.data.kind = "raise" THEN e.data.exc ELSE e.string.exc]
    ELSE [ok |-> TRUE, text |-> e.string.text,
          confidence |-> RoundedAverage(Confidences(e.data.tokens)),
          msg |-> <<>>, exc |-> "none"]

\* lines 81-90
ImageResult(formatName, text, confidence) ==
    [type |-> "image",
     content |-> [format |-> formatName, width |-> 2, height |-> 3,
                  extracted_text |-> IF Truthy(text) THEN Some(Strip(text)) ELSE None,
                  ocr_confidence |-> confidence]]

\* lines 100-106: the exception of type excType with str(e) = m
ImageFailed(m, excType) ==
    [ret |-> Err("Image processing failed: {}", <<m>>),
     logs |-> <<LogEntry(Fmt("Image processing failed: {}", <<m>>),
                         ErrorDetails(excType))>>]

\* lines 26-106: the dict returned and the entries logged
process_image(e) ==
    LET entry == LogEntry(Fmt("Processing image file", <<>>), [path |-> path])
        opened == LogEntry(Fmt("Image opened successfully", <<>>),
                           [size |-> Fmt("{}x{}", <<2, 3>>), mode |-> e.mode,
                            format |-> e.format])
        img == Converted(e)
        convLogs == IF e.mode \notin {"L", "RGB"}
                    THEN <<Log("Image converted to RGB", <<>>)>> ELSE <<>>
        ocr == Ocr(e)
        ocrLogs == IF ocr.ok
                   THEN <<LogEntry(Fmt("OCR extraction completed", <<>>),
                                   [text_length |-> Len(ocr.text),
                                    avg_confidence |->
                                        Average(Confidences(e.data.tokens)),
                                    total_words |-> Len(e.data.tokens),
                                    confidence_values |->
                                        Len(Confidences(e.data.tokens))])>>
                   ELSE <<LogEntry(Fmt("OCR extraction failed: {}", <<ocr.msg>>),
                                   ErrorDetails(ocr.exc))>>
        res == ImageResult(FormatName(img), ocr.text, ocr.confidence)
        completed == LogEntry(Fmt("Image processing completed", <<>>),
                              [result_type |-> res.type,
                               has_text |-> (res.content.extracted_text # None
                                             /\ res.content.extracted_text # Some(<<>>)),
                               confidence |-> res.content.ocr_confidence])
    IN  IF e.open.kind = "raise"
        THEN [ret |-> ImageFailed(e.open.msg, e.open.exc).ret,
              logs |-> <<entry>> \o ImageFailed(e.open.msg, e.open.exc).logs]
        ELSE IF SaveRaises(FormatName(img))
        THEN [ret |-> ImageFailed(UnknownKey, "KeyError").ret,
              logs |-> <<entry, opened>> \o convLogs \o ocrLogs
                       \o ImageFailed(UnknownKey, "KeyError").logs]
        ELSE [ret |-> res,
              logs |-> <<entry, opened>> \o convLogs \o ocrLogs \o <<completed>>]

ProcessImageWith(e) ==
    /\ env' = e
    /\ Finish(process_image(e).ret, process_image(e).logs)
    /\ UNCHANGED <<path, exists, ext, attempted, outcomes>>

ProcessImage ==
    /\ pc = "image"
    /\ \E e \in ImageEnvs(MainTokens) : ProcessImageWith(e)

\* an image whose OCR succeeds, with the given tokens
OcrEnv(ts) ==
    [kind |-> "image", open |-> [kind |-> "ok"], mode |-> "RGB", format |-> "JPEG",
     data |-> [kind |-> "value", tokens |-> ts],
     string |-> [kind |-> "value", text |-> <<97>>]]

ProcessImageOcr ==
    /\ pc = "image"
    /\ \E ts \in TokenLists(MaxTokens) : ProcessImageWith(OcrEnv(ts))

InitWith(P) ==
    /\ pc = "start"
    /\ path \in P
    /\ exists \in BOOLEAN
    /\ ext = <<>>
    /\ result = NoResult
    /\ stdout = <<>>
    /\ stderr = <<>>
    /\ attempted = <<>>
    /\ outcomes = <<>>
    /\ env = NoEnv

Init == InitWith(SamplePaths)

Next ==
    \/ Start
    \/ DocAntiword
    \/ DocOpen
    \/ DocMammoth
    \/ ProcessDocx
    \/ ProcessPdf
    \/ ProcessText
    \/ ProcessImage

Spec == Init /\ [][Next]_vars

\* the whole program on every path over the path alphabet
InitClassify == InitWith(GenPaths \cup SamplePaths)
SpecClassify == InitClassify /\ [][Next]_vars

\* the OCR confidence of every token list, on the image a.jpg
InitOcr == InitWith({<<97>> \o DotJpg}) /\ exists
NextOcr == Start \/ ProcessImageOcr
SpecOcr == InitOcr /\ [][NextOcr]_vars

\* the whole program with an antiword process that may never exit; every
\* step of the program that can be taken is eventually taken
NextHang == Next \/ DocAntiwordHang
SpecHang == Init /\ [][NextHang]_vars /\ WF_vars(NextHang)
(* ------------------- document_processor.extract_text ------------------- *)

\* json.dumps of a dict: the JSON text that encodes it
JsonDumps(d) == [json |-> d]

\* print(f"..."): one line on stdout
Line(f, a) == Fmt(f, a)

\* what a helper returns: a str, which is the extracted text or, when the
\* helper caught an exception, the error message it built (isError)
Extracted(t) == [isError |-> FALSE, text |-> t]
ErrorText(f, a) == [isError |-> TRUE, text |-> Fmt(f, a)]

\* lines 11-12 and 23-24: text += t (+ sep) for each t of ts
RECURSIVE Concat(_, _)
Concat(ts, sep) ==
    IF ts = <<>> THEN <<>> ELSE Head(ts) \o sep \o Concat(Tail(ts), sep)

\* lines 7-16: the str returned and the lines printed
extract_text_from_docx(e) ==
    IF e.open.kind = "raise"
    THEN [value |-> ErrorText("Error extracting text from DOCX: {}", <<e.open.msg>>),
          prints |-> <<Line("Error extracting text from DOCX: {}", <<e.open.msg>>)>>]
    ELSE [value |-> Extracted(Concat(e.paragraphs, <<10>>)), prints |-> <<>>]

\* lines 18-28: the str returned and the lines printed
extract_text_from_pdf(e) ==
    LET raising == {i \in DOMAIN e.pages : e.pages[i].kind = "raise"}
        first == CHOOSE i \in raising : \A j \in raising : i <= j
        failed(m) ==
            [value |-> ErrorText("Error extracting text from PDF: {}", <<m>>),
             prints |-> <<Line("Error extracting text from PDF: {}", <<m>>)>>]
    IN  IF e.open.kind = "raise" THEN failed(e.open.msg)
        ELSE IF raising # {} THEN failed(e.pages[first].msg)
        ELSE [value |-> Extracted(Concat([i \in DOMAIN e.pages |-> e.pages[i].text],
                                         <<>>)),
              prints |-> <<>>]

\* str(message) of the messages of a conversion result: "w1", "w2"
MammothMessages == {<<119, 49>>, <<119, 50>>}

\* what convert_to_markdown can do in extract_text_from_doc: raise, or
\* return a result with a value and messages (lines 35-37)
MarkdownOutcomes ==
    RaiseOutcomes({"Exception"})
    \cup [kind : {"value"}, text : Texts,
          messages : SeqsUpTo(MammothMessages, MaxMessages)]

\* a DOC for extract_text_from_doc: how open ends, and what
\* convert_to_markdown and extract_raw_text do
XDocEnvs == [kind : {"xdoc"}, open : OpenOutcomes,
             markdown : MarkdownOutcomes, raw : MammothOutcomes]

\* str(e) of the exception of line 52
NoTextMsg == Fmt("No text content could be extracted", <<>>)

\* lines 30-61: the str returned and the lines printed
extract_text_from_doc(e) ==
    LET failed(m, inner) ==
            [value |-> ErrorText("Error extracting text from DOC: {}", <<m>>),
             prints |-> (IF inner
                         THEN <<Line("Error in mammoth conversion: {}", <<m>>)>>
                         ELSE <<>>)
                        \o <<Line("Error extracting text from DOC: {}", <<m>>)>>]
        \* lines 40-41: one line for each message of the markdown result
        messages == [i \in DOMAIN e.markdown.messages |->
                        Line("Mammoth message: {}", <<e.markdown.messages[i]>>)]
        after(r) == [value |-> r.value, prints |-> messages \o r.prints]
    IN  IF e.open.kind = "raise" THEN failed(e.open.msg, FALSE)
        ELSE IF e.markdown.kind = "raise" THEN failed(e.markdown.msg, TRUE)
        ELSE IF Truthy(Strip(e.markdown.text))
        THEN after([value |-> Extracted(e.markdown.text), prints |-> <<>>])
        ELSE IF e.raw.kind = "raise" THEN after(failed(e.raw.msg, TRUE))
        ELSE IF Truthy(Strip(e.raw.text))
        THEN after([value |-> Extracted(e.raw.text), prints |-> <<>>])
        ELSE after(failed(NoTextMsg, TRUE))

\* lines 100-101: print(extract_text(file_path))
XFinish(r, prints) ==
    /\ result' = r
    /\ stdout' = stdout \o prints \o <<r>>
    /\ pc' = "done"

\* lines 86-90: the JSON returned for the str a helper returned, and the
\* lines printed
ExtractResult(h) ==
    IF ~h.isError /\ ~Truthy(Strip(h.text))
    THEN [ret |-> JsonDumps(Err("No text content extracted", <<>>)), prints |-> <<>>]
    ELSE [ret |-> JsonDumps([text |-> h.text]),
          prints |-> <<Line("Successfully extracted text, length: {}",
                             <<[len_of |-> h.text]>>)>>]

\* lines 92-95
ExtractFailed(m) ==
    [ret |-> JsonDumps(Err("Extraction failed: {}", <<m>>)),
     prints |-> <<Line("Error: {}", <<Fmt("Extraction failed: {}", <<m>>)>>)>>]

\* lines 64-84: existence check, extension, dispatch
ExtractStart ==
    /\ pc = "x_start"
    /\ IF ~exists
       THEN /\ XFinish(JsonDumps(Err("File not found", <<>>)), <<>>)
            /\ UNCHANGED ext
       ELSE LET e == Lower(SplitExt(path))
                line == Line("Processing file: {} with extension: {}", <<path, e>>)
            IN  /\ ext' = e
                /\ IF e \in {DotPdf, DotDocx, DotDoc, DotTxt, DotMd}
                   THEN /\ pc' = (IF e = DotPdf THEN "x_pdf"
                                  ELSE IF e = DotDocx THEN "x_docx"
                                  ELSE IF e = DotDoc THEN "x_doc" ELSE "x_text")
                        /\ stdout' = Append(stdout, line)
                        /\ UNCHANGED result
                   ELSE XFinish(JsonDumps(Err("Unsupported file format: {}", <<e>>)),
                                <<line>>)
    /\ UNCHANGED <<path, exists, stderr, attempted, outcomes, env>>

\* the rest of extract_text after a helper returned h
ExtractReturn(e, h) ==
    /\ env' = e
    /\ XFinish(ExtractResult(h.value).ret, h.prints \o ExtractResult(h.value).prints)
    /\ UNCHANGED <<path, exists, ext, stderr, attempted, outcomes>>

\* lines 74-75 and 86-90
ExtractPdf ==
    /\ pc = "x_pdf"
    /\ \E e \in PdfEnvs : ExtractReturn(e, extract_text_from_pdf(e))

\* lines 76-77 and 86-90
ExtractDocx ==
    /\ pc = "x_docx"
    /\ \E e \in DocxEnvs : ExtractReturn(e, extract_text_from_docx(e))

\* lines 78-79 and 86-90
ExtractDoc ==
    /\ pc = "x_doc"
    /\ \E e \in XDocEnvs : ExtractReturn(e, extract_text_from_doc(e))

\* lines 80-82, 86-90 and 92-95: a text file read as utf-8
ExtractTxt ==
    /\ pc = "x_text"
    /\ \E e \in TextEnvs :
         LET d == Decode("utf-8", e.bytes)
         IN  /\ env' = e
             /\ IF ~e.openOk["utf-8"] \/ ~d.ok
                THEN XFinish(ExtractFailed(<<69>>).ret, ExtractFailed(<<69>>).prints)
                ELSE XFinish(ExtractResult(Extracted(d.text)).ret,
                             ExtractResult(Extracted(d.text)).prints)
    /\ UNCHANGED <<path, exists, ext, stderr, attempted, outcomes>>

\* document_processor.py run on the sample paths
InitExtract ==
    /\ pc = "x_start"
    /\ path \in SamplePaths
    /\ exists \in BOOLEAN
    /\ ext = <<>>
    /\ result = NoResult
    /\ stdout = <<>>
    /\ stderr = <<>>
    /\ attempted = <<>>
    /\ outcomes = <<>>
    /\ env = NoEnv

NextExtract ==
    \/ ExtractStart
    \/ ExtractPdf
    \/ ExtractDocx
    \/ ExtractDoc
    \/ ExtractTxt

SpecExtract == InitExtract /\ [][NextExtract]_vars
(* ------------------------------ properties ----------------------------- *)

\* the order of the DOC strategies
DocOrder == <<"antiword", "markdown", "raw_text">>

\* a strategy's output is usable: a text that is non-blank after trimming
Usable(o) == o.kind = "value" /\ Strip(o.text) # <<>>

\* the text process_doc returns for the k-th strategy: antiword's output as
\* it is, a converter's output trimmed
ReturnedText(k) == IF k = 1 THEN outcomes[k].text ELSE Strip(outcomes[k].text)

IsDocSuccess(r) == DOMAIN r = {"type", "content"} /\ r.type = "doc"

DocRan == pc = "done" /\ attempted # <<>>

\* C1: in every run of process_doc the strategies are started in the fixed
\* order, none is started after a usable output, a success carries the text
\* and the name of the earliest usable strategy, and a strategy that raised
\* or was blank is followed by the next one (unless opening the file fails)
C1_FirstUsableWins ==
    /\ Len(attempted) <= Len(DocOrder)
    /\ \A i \in DOMAIN attempted : attempted[i] = DocOrder[i]
    /\ \A i \in DOMAIN attempted : i < Len(attempted) => ~Usable(outcomes[i])
    /\ IsDocSuccess(result) =>
          /\ Usable(outcomes[Len(attempted)])
          /\ result.content.method = DocOrder[Len(attempted)]
          /\ result.content.text = ReturnedText(Len(attempted))
    /\ DocRan /\ Usable(outcomes[Len(attempted)]) => IsDocSuccess(result)
    /\ DocRan /\ ~Usable(outcomes[Len(attempted)]) =>
          \/ attempted = DocOrder
          \/ env.kind = "doc" /\ ~env.openOk

\* C1 witness: antiword raised, markdown was blank, raw_text succeeded
C1_Witness ==
    /\ pc = "done"
    /\ Len(attempted) = 3
    /\ outcomes[1].kind = "raise"
    /\ outcomes[2].kind = "value"
    /\ IsDocSuccess(result)
    /\ result.content.method = "raw_text"

\* every strategy was tried and none was usable
AllStrategiesFailed ==
    /\ pc = "done"
    /\ Len(attempted) = Len(DocOrder)
    /\ \A i \in DOMAIN outcomes : ~Usable(outcomes[i])

\* the methods of the "Attempting ..." entries of a log, in log order
RECURSIVE AttemptsLogged(_)
AttemptsLogged(log) ==
    IF log = <<>> THEN <<>>
    ELSE LET m == Head(log).message
         IN  IF m.fmt = "Attempting antiword conversion..."
             THEN <<"antiword">> \o AttemptsLogged(Tail(log))
             ELSE IF m.fmt = "Attempting {} conversion..."
             THEN <<m.args[1]>> \o AttemptsLogged(Tail(log))
             ELSE AttemptsLogged(Tail(log))

\* an error message names a method: the method is one of its interpolated values
Names(r, m) == \E j \in DOMAIN r.error.args : r.error.args[j] = m

\* C2 as stated: on exhaustion the error names every attempted method and
\* the diagnostics enumerate every attempted method once, in order
C2_Original ==
    AllStrategiesFailed =>
        /\ DOMAIN result = {"error"}
        /\ \A i \in DOMAIN attempted : Names(result, attempted[i])
        /\ AttemptsLogged(stderr) = attempted

\* C2 amended: on exhaustion the error is the fixed message, which names no
\* method, and stderr has one "Attempting" entry per method, in order
C2_ExhaustionError ==
    AllStrategiesFailed =>
        /\ result = [error |-> [fmt |-> "Failed to extract text using any available method",
                                args |-> <<>>]]
        /\ stdout = <<[json |-> result]>>
        /\ AttemptsLogged(stderr) = <<"antiword", "markdown", "raw_text">>

\* C2 witness: all three strategies failed, one of them by raising and one
\* by a blank output
C2_Witness ==
    /\ AllStrategiesFailed
    /\ DOMAIN result = {"error"}
    /\ \E i, j \in DOMAIN outcomes :
         outcomes[i].kind = "raise" /\ outcomes[j].kind = "value"

\* C3: when process_document has returned, stdout holds exactly one JSON
\* object
C3_ExactlyOneJson == pc = "done" => Len(stdout) = 1

\* the chain of five strategies
SpecOrder == <<"antiword", "markdown", "raw_text", "html", "raw_bytes">>

\* C10 as stated: the exhaustion error is returned only after all five
\* strategies, HTML conversion and raw-byte decoding included, were tried
C10_Original ==
    pc = "done" /\ result = ExhaustedError => attempted = SpecOrder

\* C10 amended: the chain has three strategies, antiword, markdown and
\* raw_text, and the exhaustion error follows the third with nothing else
\* tried
C10_ThreeStrategies ==
    /\ \E k \in 0..3 : attempted = SubSeq(<<"antiword", "markdown", "raw_text">>, 1, k)
    /\ pc = "doc_mammoth" => Len(attempted) \in {1, 2}
    /\ DOMAIN result = {"error"} /\ result.error.fmt = "Failed to extract text using any available method"
          => Len(attempted) = 3

\* C10 witness: the exhaustion error right after the three strategies
C10_Witness ==
    /\ pc = "done"
    /\ result = ExhaustedError
    /\ attempted = <<"antiword", "markdown", "raw_text">>
    /\ outcomes[3].kind = "value"
\* the keys of a returned dict are those of an error or those of a success
WellFormed(r) == DOMAIN r = {"error"} \/ DOMAIN r = {"type", "content"}

\* C4: process_document always returns (no step of it is stuck before the
\* return), and what it returns is an error dict with the single key error
\* or a success dict with type and content, never both
C4_ErrorOrSuccess ==
    /\ pc # "done" => ENABLED Next
    /\ pc = "done" => WellFormed(result)

\* C4 witness: a collaborator raised while opening (PdfReader, Image.open,
\* Document) and an error dict was returned
C4_Witness ==
    /\ pc = "done"
    /\ env.kind \in {"pdf", "image", "docx"}
    /\ env.open.kind = "raise"
    /\ DOMAIN result = {"error"}

\* the extensions process handles, in lower case
SupportedExts ==
    {DotPdf, DotDocx, DotDoc, DotTxt, DotMd, DotJpg, DotJpeg, DotPng, DotWebp}

\* b, in lower case, is a with its capitals replaced by small letters (for
\* a over ASCII and Latin-1, whose capitals are A..Z, U+00C0..U+00D6 and
\* U+00D8..U+00DE)
IsLowerCaseOf(b, a) ==
    /\ Len(a) = Len(b)
    /\ \A i \in DOMAIN a :
         b[i] = a[i] + (IF a[i] \in (65..90) \cup (192..214) \cup (216..222)
                        THEN 32 ELSE 0)

\* the file exists and its extension is none of the supported ones, in any case
UnsupportedRun ==
    /\ pc = "done"
    /\ exists
    /\ \A s \in SupportedExts : ~IsLowerCaseOf(s, SplitExt(path))

\* C5 as stated: an unsupported extension is echoed in the error verbatim
C5_Original ==
    UnsupportedRun =>
        result = [error |-> [fmt |-> "Unsupported file format: {}",
                             args |-> <<SplitExt(path)>>]]

\* C5 amended: an unsupported extension is echoed in the error in lower
\* case, and no handler has run
C5_UnsupportedLowerCased ==
    UnsupportedRun =>
        /\ DOMAIN result = {"error"}
        /\ result.error.fmt = "Unsupported file format: {}"
        /\ Len(result.error.args) = 1
        /\ IsLowerCaseOf(result.error.args[1], SplitExt(path))
        /\ env = NoEnv
        /\ attempted = <<>>

\* C5 witness: an unsupported extension with a capital letter
C5_Witness ==
    /\ UnsupportedRun
    /\ \E i \in DOMAIN SplitExt(path) : SplitExt(path)[i] \in 65..90
    /\ DOMAIN result = {"error"}
    /\ result.error.args[1] # SplitExt(path)

\* the text file of the run decodes with the encoding to non-blank text
DecodesNonBlank(enc) ==
    Decode(enc, env.bytes).ok /\ Strip(Decode(enc, env.bytes).text) # <<>>

\* a run of the plain-text handler on a file every open of which succeeds
TextRun ==
    /\ pc = "done"
    /\ env.kind = "text"
    /\ \A enc \in DOMAIN env.openOk : env.openOk[enc]

DecodeFailure ==
    [error |-> [fmt |-> "Failed to decode text file with supported encodings",
                args |-> <<>>]]

TextOf(enc) == [type |-> "text", content |-> [text |-> Decode(enc, env.bytes).text]]

\* C6 as stated: the text of the first of utf-8, latin-1, cp1252 that gives
\* non-blank content, and DecodeFailure when none does
C6_Original ==
    TextRun =>
        result = IF DecodesNonBlank("utf-8") THEN TextOf("utf-8")
                 ELSE IF DecodesNonBlank("latin-1") THEN TextOf("latin-1")
                 ELSE IF DecodesNonBlank("cp1252") THEN TextOf("cp1252")
                 ELSE DecodeFailure

\* C6 amended: latin-1 and then cp1252 are tried only when the file does not
\* decode as utf-8; a file that decodes as utf-8 gives its text, or the
\* error "Empty text file" when that text is blank
C6_Utf8ThenRetry ==
    TextRun =>
        result = IF Decode("utf-8", env.bytes).ok
                 THEN IF DecodesNonBlank("utf-8") THEN TextOf("utf-8")
                      ELSE [error |-> [fmt |-> "Empty text file", args |-> <<>>]]
                 ELSE IF DecodesNonBlank("latin-1") THEN TextOf("latin-1")
                 ELSE IF DecodesNonBlank("cp1252") THEN TextOf("cp1252")
                 ELSE DecodeFailure

\* C6 witness: utf-8 failed, latin-1 was blank and cp1252 gave the text
C6_Witness ==
    /\ TextRun
    /\ ~Decode("utf-8", env.bytes).ok
    /\ ~DecodesNonBlank("latin-1")
    /\ result = TextOf("cp1252")

\* a run of the PDF handler in which no collaborator raised
PdfRun ==
    /\ pc = "done"
    /\ env.kind = "pdf"
    /\ env.open.kind = "ok"
    /\ \A i \in DOMAIN env.pages : env.pages[i].kind = "value"

\* the pages of the run with non-blank text
NonBlankPages == {i \in DOMAIN env.pages : Strip(env.pages[i].text) # <<>>}

NoTextContent == [error |-> [fmt |-> "No text content found in PDF", args |-> <<>>]]

\* C7 as stated: with a non-blank page, pages has one entry per page, blank
\* pages included; NoTextContent only when every page is blank
C7_Original ==
    PdfRun =>
        /\ NonBlankPages # {} =>
              /\ DOMAIN result = {"type", "content"}
              /\ result.content.pages = [i \in DOMAIN env.pages |-> env.pages[i].text]
        /\ result = NoTextContent => NonBlankPages = {}

\* C7 amended: with a non-blank page, pages has one entry per non-blank
\* page, in page order, blank pages left out; NoTextContent exactly when
\* every page is blank
C7_NonBlankPagesInOrder ==
    PdfRun =>
        /\ NonBlankPages # {} =>
              /\ DOMAIN result = {"type", "content"}
              /\ result.type = "pdf"
              /\ Len(result.content.pages) = Cardinality(NonBlankPages)
              /\ \A i \in NonBlankPages :
                   result.content.pages[Cardinality({j \in NonBlankPages : j <= i})]
                       = env.pages[i].text
        /\ result = NoTextContent <=> NonBlankPages = {}

\* C7 witness: a blank page between two non-blank pages
C7_Witness ==
    /\ PdfRun
    /\ Len(env.pages) = 3
    /\ NonBlankPages = {1, 3}
    /\ env.pages[1].text # env.pages[3].text
    /\ DOMAIN result = {"type", "content"}

\* a run of the image handler in which the image opened
ImageRun == pc = "done" /\ env.kind = "image" /\ env.open.kind = "ok"

\* the tokens of the run that count: non-blank text and a confidence other
\* than -1
Qualifying ==
    {i \in DOMAIN env.data.tokens :
        Strip(env.data.tokens[i].text) # <<>> /\ env.data.tokens[i].conf # -1}

\* the sum of the confidences of the tokens at the positions of I
RECURSIVE ConfSum(_)
ConfSum(I) ==
    IF I = {} THEN 0
    ELSE LET i == CHOOSE i \in I : TRUE
         IN  env.data.tokens[i].conf + ConfSum(I \ {i})

\* the tokens of the example: confidences 90, -1, 0, 80 with texts "x", "",
\* "x", "x"
ExampleTokens ==
    <<[text |-> <<120>>, conf |-> 90], [text |-> <<>>, conf |-> -1],
      [text |-> <<120>>, conf |-> 0], [text |-> <<120>>, conf |-> 80]>>

\* C8: when OCR succeeded, ocr_confidence (in hundredths) is 0 without
\* qualifying tokens, and otherwise within half a hundredth of the mean of
\* the qualifying confidences; the example gives 56.67
C8_OcrConfidence ==
    ImageRun /\ env.data.kind = "value" /\ env.string.kind = "value"
             /\ DOMAIN result = {"type", "content"} =>
        LET v == result.content.ocr_confidence
            n == Cardinality(Qualifying)
            d == v * n - 100 * ConfSum(Qualifying)
        IN  /\ n = 0 => v = 0
            /\ n > 0 => 2 * d <= n /\ -2 * d <= n
            /\ env.data.tokens = ExampleTokens => v = 5667

\* C8 witness: the example
C8_Witness ==
    /\ ImageRun
    /\ env.data.kind = "value"
    /\ env.data.tokens = ExampleTokens
    /\ DOMAIN result = {"type", "content"}
    /\ result.content.ocr_confidence = 5667

\* C9: when an OCR pass raised on an opened image, the result is a success
\* with extracted_text null and ocr_confidence 0
C9_OcrFailureNonFatal ==
    ImageRun /\ (env.data.kind = "raise" \/ env.string.kind = "raise") =>
        /\ DOMAIN result = {"type", "content"}
        /\ result.type = "image"
        /\ result.content.extracted_text = None
        /\ result.content.ocr_confidence = 0
\* C11: every call terminates, also when the antiword process never exits:
\* process_document eventually returns
C11_Terminates == <>(pc = "done")
\* the strategies of the failure entries of a log, in log order
RECURSIVE FailuresLogged(_)
FailuresLogged(log) ==
    IF log = <<>> THEN <<>>
    ELSE LET m == Head(log).message
         IN  IF m.fmt \in {"Antiword conversion failed: {}", "Antiword error: {}"}
             THEN <<"antiword">> \o FailuresLogged(Tail(log))
             ELSE IF m.fmt \in {"{} conversion failed: {}",
                                "{} conversion produced empty result"}
             THEN <<m.args[1]>> \o FailuresLogged(Tail(log))
             ELSE FailuresLogged(Tail(log))

\* the strategies from the i-th on that raised or yielded blank text, in
\* strategy order
RECURSIVE FailedFrom(_)
FailedFrom(i) ==
    IF i > Len(attempted) THEN <<>>
    ELSE IF Usable(outcomes[i]) THEN FailedFrom(i + 1)
    ELSE <<attempted[i]>> \o FailedFrom(i + 1)

\* C12: at every point of the chain the diagnostics hold exactly one failure
\* entry per strategy that raised or yielded blank text so far, in strategy
\* order; with strategies 1 and 2 raising and raw_text succeeding, method is
\* raw_text and there are exactly two failure entries
C12_OneFailureEntryEach ==
    /\ FailuresLogged(stderr) = FailedFrom(1)
    /\ IsDocSuccess(result) /\ Len(attempted) = 3
          /\ outcomes[1].kind = "raise" /\ outcomes[2].kind = "raise" =>
          /\ result.content.method = "raw_text"
          /\ FailuresLogged(stderr) = <<"antiword", "markdown">>
\* C13: an image that opened and whose two OCR passes succeeded gives a
\* success image result with format, width, height, extracted_text and
\* ocr_confidence, also when it was converted to RGB first and its format
\* is then reported as unknown
C13_ImageSuccess ==
    ImageRun /\ env.data.kind = "value" /\ env.string.kind = "value" =>
        /\ DOMAIN result = {"type", "content"}
        /\ result.type = "image"
        /\ DOMAIN result.content =
              {"format", "width", "height", "extracted_text", "ocr_confidence"}
        /\ env.mode \notin {"L", "RGB"} => result.content.format = "unknown"
\* a format helper of extract_text hit an exception in the run
HelperFailed ==
    /\ pc = "done"
    /\ \/ env.kind = "docx" /\ env.open.kind = "raise"
       \/ env.kind = "pdf"
          /\ (env.open.kind = "raise"
              \/ \E i \in DOMAIN env.pages : env.pages[i].kind = "raise")
       \/ env.kind = "xdoc"
          /\ \/ env.open.kind = "raise"
             \/ env.markdown.kind = "raise"
             \/ ~Usable(env.markdown) /\ ~Usable(env.raw)

\* C14: when a format helper hit an exception, extract_text returns an
\* error object, never a success object whose text is the error message
C14_HelperErrorIsError ==
    HelperFailed => DOMAIN result.json = {"error"}
====
